---- MODULE Spec2Model ----
(***************************************************************************)
(* Model of the Steamy launcher (src/steamy.py): the config store          *)
(* (load_config / save_config), the playtime ledger (_save_playtime) and   *)
(* the session monitor loop of SteamyLauncher.launch_game.                 *)
(*                                                                         *)
(* Time is wall-clock time in whole seconds (time.time()).  The work of a  *)
(* tick is instantaneous at this granularity; time passes only where the   *)
(* code sleeps or blocks: time.sleep(1) at the end of a tick (which can    *)
(* overrun), the grace sleep of force-quit, and the blocking get_key() of  *)
(* the "Game Session Ended" screen.                                        *)
(***************************************************************************)
EXTENDS Integers, Sequences, FiniteSets

VARIABLES
    pc,               \* "off" | "menu" | "monitor" | "flush" | "error" | "returned"
    now,              \* the wall clock, time.time()
    file,             \* the JSON document on disk (steamy_config.json)
    config,           \* self.config, the in-memory document
    app_id,           \* launch_game's argument
    start_time,       \* locals of launch_game, lines 684-691
    last_save,
    total_playtime,
    last_cpu_check,
    cpu_history,
    game_was_running,
    running_time,
    current_time,     \* locals of the loop body, lines 695-740
    session_time,
    game_proc,        \* the handle of this tick: a pid, or NoProcess for None
    cpu_percent,
    avg_cpu,
    exit_reason,      \* history: what made the loop stop ("none" while it runs)
    flushes,          \* history: final flushes (line 806) run by this session
    flush_time,       \* history: the clock read by the final flush
    ledger0,          \* history: the title's ledger entry when the session started
    seen,             \* history: some tick of this session found the process
    observed,         \* history: time the process was observed running, see Observe
    ticks,            \* history: loop iterations of this session
    sampled,          \* history: CPU readings appended by this session
    prep,             \* history: how the launch preparation ended, see PrepareLaunch
    spawned,          \* history: the commands this launch attempt has started
    lookup,           \* history: what the process lookup of this tick returned
    prev_proc,        \* history: the handle of the tick before this one
    faults,           \* history: what failed in this tick ("lookup", "sample")
    poll,             \* history: the key read by this tick and the fate of its signals
    failed_writes,    \* history: checkpoint writes of this session that failed
    shown,            \* the durations on the screen the session printed last
    games,            \* display_menu's list of installed games (their app ids)
    selected_game,    \* display_menu's index into games, counted from 0
    launches          \* history: sessions started since installation

vars == << pc, now, file, config, app_id, start_time, last_save, total_playtime,
           last_cpu_check, cpu_history, game_was_running, running_time,
           current_time, session_time, game_proc, cpu_percent, avg_cpu,
           exit_reason, flushes, flush_time, ledger0, seen, observed, ticks, sampled,
           prep, spawned, lookup, prev_proc, faults, poll, failed_writes,
           shown, games, selected_game, launches >>

menuLocals == << games, selected_game >>

sessionLocals == << app_id, start_time, last_save, total_playtime, last_cpu_check,
                    cpu_history, game_was_running, running_time, current_time,
                    session_time, game_proc, cpu_percent, avg_cpu >>

sessionHistory == << exit_reason, flushes, flush_time, ledger0, seen, observed, ticks,
                     sampled, prep, spawned, lookup, prev_proc, faults, poll,
                     failed_writes, shown >>

---------------------------------------------------------------------------
(* Program constants *)

SaveInterval == 300      \* "if current_time - last_save >= 300"
MinRunning == 15         \* "elif game_was_running and running_time >= 15"
HistoryMax == 10         \* "if len(cpu_history) > 10"
CpuInterval == 1         \* "if current_time - last_cpu_check >= 1"
TickSleep == 1           \* "time.sleep(1)" at the end of the loop body
GracePeriod == 1         \* "time.sleep(1)" between terminate() and is_running()
LaunchWait == 5          \* "time.sleep(5)  # Wait for game to start"
KillWait == 3            \* "time.sleep(3)" after taskkill of steam.exe
LoginWait == 5           \* "time.sleep(5)" after starting steam.exe -login

(* Bounds of the model *)

Epoch == 1000            \* the clock when the launcher is first started
MaxDelay == 1            \* Spec: a sleep can overrun by up to this many seconds
MaxWait == 1             \* longest modelled wait for a key on the Ended screen
MaxTicks == 4            \* Spec: loop iterations per session
MaxCpuTicks == 11        \* SpecCpu: loop iterations per session
MaxLifeTicks == 2        \* SpecLife: loop iterations per session
MaxLaunches == 2         \* SpecLife: sessions since installation
MaxLaunchTicks == 2      \* SpecLaunch: loop iterations per session
MaxKeyTicks == 3         \* SpecKeys: loop iterations per session
MaxFaultTicks == 3       \* SpecFaults: loop iterations per session
MaxFormatTicks == 4      \* SpecFormat: loop iterations per session
MaxGames == 5            \* SpecMenu: longest list of installed games

Titles == {"440", "570"}
Users == {"u1"}
Paths == {"p1"}

---------------------------------------------------------------------------
(* Config store *)

\* default_config of load_config; an absent playtime key reads as 0
\* (".get(app_id_str, 0)"), so the empty dict is the all-zero map.
DefaultConfig ==
    [ library_paths |-> << >>,
      current_user |-> "",
      steam_usernames |-> [u \in Users |-> ""],
      playtime |-> [t \in Titles |-> 0] ]

\* load_config: the parsed document, or default_config when reading or
\* parsing raises (the except branch).
LoadConfig(doc, readOk) == IF readOk THEN doc ELSE DefaultConfig

\* save_config: json.dump of self.config over the file; an exception is
\* printed and swallowed, leaving the file as it was.
SaveConfig(doc, cfg, writeOk) == IF writeOk THEN cfg ELSE doc

\* A faulty save_config that lets the exception of a failed write escape to
\* launch_game's outer handler; C14 tells it from the real one.
AfterSaveRaising(writeOk, next) == IF writeOk THEN next ELSE "error"

\* save_config's "except Exception as e: print(...)": whether the write
\* worked or not, the caller goes on where it would have gone.
AfterSave(writeOk, next) == next

\* A faulty save that takes the update back out of memory when the write
\* fails; C24 tells it from the real one.
MemoryAfterSaveRollback(cfg, before, writeOk) == IF writeOk THEN cfg ELSE before

\* self.config after _save_playtime: the entry is updated in memory before
\* save_config is called, and a failed write (swallowed by save_config)
\* leaves that update in place.
MemoryAfterSave(cfg, before, writeOk) == cfg

\* str(app_id): app ids come out of the manifests as strings already.
AppIdStr(app) == app

\* _get_total_playtime
GetTotalPlaytime(cfg, app) == cfg.playtime[AppIdStr(app)]

\* A faulty _save_playtime that stores the delta instead of adding it; C1
\* tells it from the real one.
SavePlaytimeOverwrite(cfg, app, delta) ==
    [cfg EXCEPT !.playtime[AppIdStr(app)] = delta]

\* A faulty _save_playtime that rebuilds the playtime map with the one
\* title in it; C29 tells it from the real one.
SavePlaytimeAlone(cfg, app, delta) ==
    [cfg EXCEPT !.playtime =
        [t \in Titles |-> IF t = AppIdStr(app) THEN cfg.playtime[t] + delta ELSE 0]]

\* _save_playtime, up to its call of save_config
SavePlaytime(cfg, app, delta) ==
    [cfg EXCEPT !.playtime[AppIdStr(app)] = @ + delta]

---------------------------------------------------------------------------
(* Process lookup *)

\* A process table is what psutil shows to one lookup:
\*   procs  the processes psutil.process_iter yields, in order, each with its
\*          name, its pid and what reading its name does ("ok", or the
\*          psutil error it raises);
\*   kids   steam_proc.children(): what the call does ("ok" or the error it
\*          raises) and the children it returns.
\* A name is a tuple of strings, f"steam_{app_id}.exe" being
\* << "steam_", app_id, ".exe" >>.

NoProcess == 0           \* "return None"
Raised == -1             \* an exception left the lookup

\* str.lower() on the strings that occur in the tables
LowerStr(x) ==
    CASE x = "Steam.exe" -> "steam.exe"
      [] x = "SteamWebHelper.exe" -> "steamwebhelper.exe"
      [] x = "Steam_" -> "steam_"
      [] x = ".EXE" -> ".exe"
      [] OTHER -> x

Lower(name) == [i \in DOMAIN name |-> LowerStr(name[i])]

First(idx) == CHOOSE i \in idx : \A j \in idx : i <= j

\* A faulty _get_process_by_name without its try/except: the first process
\* whose name cannot be read ends the lookup with an exception.  C15 tells
\* it from the real one.
GetProcessByNameUncaught(procs, name) ==
    LET stop == {i \in 1..Len(procs) :
                    \/ procs[i].read # "ok"
                    \/ Lower(procs[i].name) = Lower(name)}
    IN IF stop = {} THEN NoProcess
       ELSE IF procs[First(stop)].read # "ok" THEN Raised
       ELSE procs[First(stop)].pid

\* _get_process_by_name: the first process whose name, lowered, is the wanted
\* name, lowered; a process whose name raises NoSuchProcess or AccessDenied is
\* passed over.
GetProcessByName(procs, name) ==
    LET hit == {i \in 1..Len(procs) :
                    /\ procs[i].read = "ok"
                    /\ Lower(procs[i].name) = Lower(name)}
    IN IF hit = {} THEN NoProcess ELSE procs[First(hit)].pid

\* "possible_names" of _get_game_process
PossibleNames(app) ==
    << << "steam_", app, ".exe" >>, << "game_", app, ".exe" >>,
       << "app_", app, ".exe" >> >>

SteamHelpers == {<< "steamservice.exe" >>, << "steamwebhelper.exe" >>}

\* The scan of Steam's children in _get_game_process: the first child that
\* is not a Steam helper; an error raised by children() or by a child's
\* name() ends the scan with nothing.
ScanChildren(kids) ==
    IF kids.scan # "ok" THEN NoProcess
    ELSE LET list == kids.list
             stop == {i \in 1..Len(list) :
                         \/ list[i].read # "ok"
                         \/ Lower(list[i].name) \notin SteamHelpers}
         IN IF stop = {} THEN NoProcess
            ELSE IF list[First(stop)].read # "ok" THEN NoProcess
            ELSE list[First(stop)].pid

\* _get_game_process
GetGameProcess(table, app) ==
    LET names == PossibleNames(app)
        byName == [k \in DOMAIN names |-> GetProcessByName(table.procs, names[k])]
        hit == {k \in DOMAIN names : byName[k] # NoProcess}
        steam == GetProcessByName(table.procs, << "steam.exe" >>)
    IN IF hit # {} THEN byName[First(hit)]
       ELSE IF steam = Raised THEN Raised
       ELSE IF steam # NoProcess THEN ScanChildren(table.kids)
       ELSE NoProcess

\* Whether something the lookup reads in this table raises.
TableFaulty(table) ==
    \/ \E i \in 1..Len(table.procs) : table.procs[i].read # "ok"
    \/ table.kids.scan # "ok"
    \/ \E i \in 1..Len(table.kids.list) : table.kids.list[i].read # "ok"

Proc(name, pid, read) == [name |-> name, pid |-> pid, read |-> read]

NoKids == [scan |-> "ok", list |-> << >>]

\* Process tables for the title app.
NoGame(app) ==
    [ procs |-> << Proc(<< "explorer.exe" >>, 2, "ok") >>, kids |-> NoKids ]

GameByName(app) ==
    [ procs |-> << Proc(<< "explorer.exe" >>, 2, "ok"),
                   Proc(<< "Steam_", app, ".EXE" >>, 7, "ok") >>,
      kids |-> NoKids ]

GameRestarted(app) ==
    [ procs |-> << Proc(<< "game_", app, ".exe" >>, 9, "ok") >>, kids |-> NoKids ]

GameUnreadable(app) ==
    [ procs |-> << Proc(<< "steam_", app, ".exe" >>, 7, "AccessDenied"),
                   Proc(<< "explorer.exe" >>, 2, "NoSuchProcess") >>,
      kids |-> NoKids ]

GameUnderSteam(app) ==
    [ procs |-> << Proc(<< "Steam.exe" >>, 3, "ok") >>,
      kids |-> [ scan |-> "ok",
                 list |-> << Proc(<< "SteamWebHelper.exe" >>, 4, "ok"),
                             Proc(<< "hl2.exe" >>, 8, "ok") >> ] ]

SteamScanFails(app) ==
    [ procs |-> << Proc(<< "steam.exe" >>, 3, "ok") >>,
      kids |-> [ scan |-> "AccessDenied",
                 list |-> << Proc(<< "hl2.exe" >>, 8, "ok") >> ] ]

SteamChildGone(app) ==
    [ procs |-> << Proc(<< "steam.exe" >>, 3, "ok") >>,
      kids |-> [ scan |-> "ok",
                 list |-> << Proc(<< "steamwebhelper.exe" >>, 4, "ok"),
                             Proc(<< "hl2.exe" >>, 8, "NoSuchProcess"),
                             Proc(<< "hl2.exe" >>, 8, "ok") >> ] ]

\* The tables of a machine on which the game is there or not, and nothing
\* fails.
PlainTables(app) == {NoGame(app), GameByName(app)}

\* Those, and tables in which the game has another identity, runs under
\* Steam, or cannot be read.
AllTables(app) ==
    PlainTables(app) \cup
    { GameRestarted(app), GameUnreadable(app), GameUnderSteam(app),
      SteamScanFails(app), SteamChildGone(app) }

---------------------------------------------------------------------------
(* Pure steps of the loop body *)

\* A faulty session clock that counts loop iterations instead of reading the
\* wall clock; C6 tells it from the real one.
SessionTimeByTicks(cur, start, n) == n * TickSleep

\* A faulty handle resolution that keeps the handle of the tick before when
\* the lookup finds nothing; C19 tells it from the real one.
ResolveHandleCached(found, cached) ==
    IF found # NoProcess THEN found ELSE cached

\* "game_proc = self._get_game_process(app_id)": the handle of a tick is the
\* result of this tick's lookup, whatever the handle of the tick before was.
ResolveHandle(found, cached) == found

\* A faulty loop that reads the title's playtime from the ledger again on
\* every tick; C21 tells it from the real one.
PriorPlaytimeReread(total, cfg, app) == GetTotalPlaytime(cfg, app)

\* The loop never assigns total_playtime: a tick works with the value that
\* line 687 read before the loop, whatever the ledger holds by now.
PriorPlaytime(total, cfg, app) == total

\* A faulty _format_time that still counts minutes at one hour exactly; C25
\* tells it from the real one.
FormatTimeLateHour(seconds) ==
    IF seconds <= 3600
    THEN << seconds \div 60, "m ", seconds % 60, "s" >>
    ELSE << seconds \div 3600, "h ", (seconds % 3600) \div 60, "m" >>

\* _format_time: f"{int(seconds // 60)}m {int(seconds % 60)}s" below an hour,
\* f"{hours}h {minutes}m" from an hour on.  The string is kept as the tuple
\* of its parts, the numbers standing for their decimal digits.
FormatTime(seconds) ==
    IF seconds < 3600
    THEN << seconds \div 60, "m ", seconds % 60, "s" >>
    ELSE << seconds \div 3600, "h ", (seconds % 3600) \div 60, "m" >>

\* "self._format_time(total_playtime + session_time)": the total a tick shows
DisplayedTotal(total, st) == total + st

\* "session_time = current_time - start_time"
SessionTime(cur, start, n) == cur - start

\* A faulty tracking step that marks the game as running before any lookup
\* has found it; C9 tells it from the real one.
TrackRunningEager(found, was, rt, st) ==
    [ was |-> TRUE,
      rt |-> IF found THEN st ELSE rt,
      ended |-> (~found) /\ was /\ rt >= MinRunning ]

\* A faulty tracking step whose Ended test forgets game_was_running and
\* whose running_time follows the session clock on every tick; C4 tells it
\* from the real one.
TrackRunningUnguarded(found, was, rt, st) ==
    [ was |-> IF found THEN TRUE ELSE was,
      rt |-> st,
      ended |-> (~found) /\ st >= MinRunning ]

\* A faulty tracking step whose flag follows the lookup of the tick and so
\* falls back when the process disappears; C18 tells it from the real one.
TrackRunningForgetful(found, was, rt, st) ==
    [ was |-> found,
      rt |-> IF found THEN st ELSE rt,
      ended |-> (~found) /\ was /\ rt >= MinRunning ]

\* "if game_proc: ... elif game_was_running and running_time >= 15: ... break"
TrackRunning(found, was, rt, st) ==
    [ was |-> IF found THEN TRUE ELSE was,
      rt |-> IF found THEN st ELSE rt,
      ended |-> (~found) /\ was /\ rt >= MinRunning ]

\* A faulty history update that drops the newest sample (pop() for pop(0));
\* C7 tells it from the real one.
AppendSampleDropNewest(h, s) ==
    LET a == Append(h, s)
    IN IF Len(a) > HistoryMax THEN SubSeq(a, 1, HistoryMax) ELSE a

\* "cpu_history.append(cpu_percent); if len(cpu_history) > 10: cpu_history.pop(0)"
AppendSample(h, s) ==
    LET a == Append(h, s)
    IN IF Len(a) > HistoryMax THEN Tail(a) ELSE a

RECURSIVE SeqSum(_)
SeqSum(h) == IF h = << >> THEN 0 ELSE Head(h) + SeqSum(Tail(h))

\* "avg_cpu = sum(cpu_history) / len(cpu_history) if cpu_history else 0",
\* kept as the exact fraction <<numerator, denominator>>.
AvgCpu(h) == IF h # << >> THEN << SeqSum(h), Len(h) >> ELSE << 0, 1 >>

\* A faulty checkpoint that credits the whole session so far instead of the
\* time since the last checkpoint; C26 tells it from the real one.
CheckpointDeltaWholeSession(cur, ls, start) == cur - start

\* "self._save_playtime(app_id, current_time - last_save)"
CheckpointDelta(cur, ls, start) == cur - ls

\* A faulty checkpoint test that lets a tick exactly SaveInterval after the
\* last checkpoint pass; C16 tells it from the real one.
CheckpointDueStrict(cur, ls) == cur - ls > SaveInterval

\* "if current_time - last_save >= 300"
CheckpointDue(cur, ls) == cur - ls >= SaveInterval

\* A faulty CPU step that samples on every tick with a handle, however
\* recent the last sample; C20 tells it from the real one.
SampleChoicesEveryTick(found, cur, lastCheck, samples, record) ==
    IF ~found
    THEN {[taken |-> FALSE, value |-> 0, failed |-> FALSE]}
    ELSE {[taken |-> FALSE, value |-> 0, failed |-> record /\ f] : f \in BOOLEAN}
         \cup {[taken |-> TRUE, value |-> v, failed |-> record /\ f] :
                   v \in samples, f \in BOOLEAN}

\* The CPU step of a tick (lines 721-737): nothing without a handle; with
\* one, cpu_percent() may raise NoSuchProcess/AccessDenied (caught, nothing
\* recorded), and a sample is taken only when the last one is a second old.
\* memory_info() may raise the same errors after a sample was taken.  failed
\* says that one of the two raised, where the specification keeps a record.
SampleChoices(found, cur, lastCheck, samples, record) ==
    IF ~found
    THEN {[taken |-> FALSE, value |-> 0, failed |-> FALSE]}
    ELSE {[taken |-> FALSE, value |-> 0, failed |-> record /\ f] : f \in BOOLEAN}
         \cup (IF cur - lastCheck >= CpuInterval
               THEN {[taken |-> TRUE, value |-> v, failed |-> record /\ f] :
                        v \in samples, f \in BOOLEAN}
               ELSE {})

\* What the key poll of lines 786-803 can do: the key read (or none), and the
\* outcome of the signals it sends to the handle of this tick.
Keys == {"none", "other", "undecodable", "Q", "K", "R", "B"}

\* No key in the buffer: "msvcrt.kbhit()" is false.
NoPoll == [key |-> "none", sig |-> "none"]

KeyOutcomes(found, keys) ==
    {[key |-> k, sig |-> "none"] : k \in keys \ {"Q", "K"}}
    \cup (IF found
          THEN {[key |-> "Q", sig |-> g] :
                    g \in IF "Q" \in keys
                          THEN {"terminate_raises", "exited", "killed", "kill_raises"}
                          ELSE {}}
               \cup {[key |-> "K", sig |-> g] :
                    g \in IF "K" \in keys THEN {"killed", "kill_raises"} ELSE {}}
          ELSE {[key |-> k, sig |-> "none"] : k \in keys \cap {"Q", "K"}})

\* The signals the key handler issues to the handle of the tick, in order
\* (lines 788-797): Q terminates, sleeps, and kills when is_running() still
\* holds; K kills; a call that raises was issued all the same.
Signals(ko) ==
    CASE ko.key = "Q" /\ ko.sig \in {"terminate_raises", "exited"} ->
             << "terminate" >>
      [] ko.key = "Q" /\ ko.sig \in {"killed", "kill_raises"} ->
             << "terminate", "kill" >>
      [] ko.key = "K" /\ ko.sig \in {"killed", "kill_raises"} ->
             << "kill" >>
      [] OTHER -> << >>

\* A faulty key handler that swallows what decode(), terminate() and kill()
\* raise and carries on as if the call had worked; C27 tells it from the real
\* one.
EndingSwallowing(ko, over) ==
    CASE ko.key = "Q" /\ ko.sig \in {"none", "terminate_raises"} ->
             [pc |-> "flush", reason |-> "Q", adv |-> 0]
      [] ko.key = "Q" ->
             [pc |-> "flush", reason |-> "Q", adv |-> GracePeriod + over]
      [] ko.key = "B" ->
             [pc |-> "flush", reason |-> "B", adv |-> 0]
      [] ko.key = "R" ->
             [pc |-> "monitor", reason |-> "none", adv |-> 0]
      [] OTHER ->
             [pc |-> "monitor", reason |-> "none", adv |-> TickSleep + over]

\* A faulty key handler in which Q and B do not break: the tick sleeps and
\* the loop goes round again; C23 tells it from the real one.
EndingDeferred(ko, over) ==
    CASE ko.key = "undecodable" ->
             [pc |-> "error", reason |-> "badkey", adv |-> 0]
      [] ko.key = "Q" /\ ko.sig \in {"terminate_raises", "kill_raises"} ->
             [pc |-> "error", reason |-> "Q", adv |-> 0]
      [] ko.key = "K" /\ ko.sig = "kill_raises" ->
             [pc |-> "error", reason |-> "K", adv |-> 0]
      [] ko.key = "R" ->
             [pc |-> "monitor", reason |-> "none", adv |-> 0]
      [] OTHER ->
             [pc |-> "monitor", reason |-> "none", adv |-> TickSleep + over]

\* Where a key outcome leaves the loop and how long the tick then sleeps.
\* An exception raised by decode(), terminate() or kill() is caught by the
\* outer "except Exception" of launch_game only.
Ending(ko, over) ==
    CASE ko.key = "undecodable" ->
             [pc |-> "error", reason |-> "badkey", adv |-> 0]
      [] ko.key = "Q" /\ ko.sig = "none" ->
             [pc |-> "flush", reason |-> "Q", adv |-> 0]
      [] ko.key = "Q" /\ ko.sig = "terminate_raises" ->
             [pc |-> "error", reason |-> "Q", adv |-> 0]
      [] ko.key = "Q" /\ ko.sig \in {"exited", "killed"} ->
             [pc |-> "flush", reason |-> "Q", adv |-> GracePeriod + over]
      [] ko.key = "Q" /\ ko.sig = "kill_raises" ->
             [pc |-> "error", reason |-> "Q", adv |-> GracePeriod + over]
      [] ko.key = "K" /\ ko.sig = "kill_raises" ->
             [pc |-> "error", reason |-> "K", adv |-> 0]
      [] ko.key = "B" ->
             [pc |-> "flush", reason |-> "B", adv |-> 0]
      [] ko.key = "R" ->
             [pc |-> "monitor", reason |-> "none", adv |-> 0]
      [] OTHER ->
             [pc |-> "monitor", reason |-> "none", adv |-> TickSleep + over]

\* Every way the key poll of a tick can go: its ending, and the key outcome
\* where the specification keeps a record of it.
Endings(found, keys, overruns, record) ==
    {[ko |-> IF record THEN ko ELSE NoPoll, e |-> Ending(ko, over)] :
        ko \in KeyOutcomes(found, keys), over \in overruns}

\* History only: the time the process has been observed running, counted
\* between two consecutive ticks that both found it, saturating at MinRunning.
Observe(obs, foundBefore, found, gap) ==
    IF foundBefore /\ found
    THEN (IF obs + gap > MinRunning THEN MinRunning ELSE obs + gap)
    ELSE obs

---------------------------------------------------------------------------
(* Launcher *)

InitialFiles(priors) ==
    { [ library_paths |-> << "p1" >>,
        current_user |-> "u1",
        steam_usernames |-> [u \in Users |-> "acct"],
        playtime |-> pt ] : pt \in [Titles -> priors] }

idleSession ==
    /\ app_id = "" /\ start_time = 0 /\ last_save = 0 /\ total_playtime = 0
    /\ last_cpu_check = 0 /\ cpu_history = << >> /\ game_was_running = FALSE
    /\ running_time = 0 /\ current_time = 0 /\ session_time = 0
    /\ game_proc = NoProcess /\ cpu_percent = 0 /\ avg_cpu = << 0, 1 >>
    /\ exit_reason = "none" /\ flushes = 0 /\ flush_time = 0 /\ ledger0 = 0
    /\ seen = FALSE /\ observed = 0 /\ ticks = 0 /\ sampled = 0
    /\ prep = "none" /\ spawned = {} /\ lookup = NoProcess /\ poll = NoPoll
    /\ prev_proc = NoProcess /\ faults = {}
    /\ failed_writes = 0 /\ shown = << >>

resetSession ==
    /\ app_id' = "" /\ start_time' = 0 /\ last_save' = 0 /\ total_playtime' = 0
    /\ last_cpu_check' = 0 /\ cpu_history' = << >> /\ game_was_running' = FALSE
    /\ running_time' = 0 /\ current_time' = 0 /\ session_time' = 0
    /\ game_proc' = NoProcess /\ cpu_percent' = 0 /\ avg_cpu' = << 0, 1 >>
    /\ exit_reason' = "none" /\ flushes' = 0 /\ flush_time' = 0 /\ ledger0' = 0
    /\ seen' = FALSE /\ observed' = 0 /\ ticks' = 0 /\ sampled' = 0
    /\ prep' = "none" /\ spawned' = {} /\ lookup' = NoProcess /\ poll' = NoPoll
    /\ prev_proc' = NoProcess /\ faults' = {}
    /\ failed_writes' = 0 /\ shown' = << >>

InitWith(files) ==
    /\ pc = "off"
    /\ now = Epoch
    /\ file \in files
    /\ config = DefaultConfig
    /\ launches = 0
    /\ games = << >> /\ selected_game = 0
    /\ idleSession

\* SteamyLauncher.__init__ followed by main's call of display_menu
StartLauncher ==
    /\ pc = "off"
    /\ UNCHANGED menuLocals
    /\ \E readOk \in BOOLEAN : config' = LoadConfig(file, readOk)
    /\ pc' = "menu"
    /\ UNCHANGED << now, file, launches, sessionLocals, sessionHistory >>

\* display_menu, key Q: the launcher process ends
Quit ==
    /\ pc = "menu"
    /\ UNCHANGED menuLocals
    /\ pc' = "off"
    /\ UNCHANGED << now, file, config, launches, sessionLocals, sessionHistory >>

\* select_steam_user, Enter on a user
SelectUser ==
    /\ pc = "menu"
    /\ UNCHANGED menuLocals
    /\ config.library_paths # << >>
    /\ \E u \in Users, name \in {"", "acct"}, writeOk \in BOOLEAN :
         LET cfg == [config EXCEPT !.current_user = u, !.steam_usernames[u] = name]
         IN /\ config' = cfg
            /\ file' = SaveConfig(file, cfg, writeOk)
    /\ UNCHANGED << pc, now, launches, sessionLocals, sessionHistory >>

\* manage_library_paths, choice 1 or 3: a path not yet listed is appended
AddLibraryPath ==
    /\ pc = "menu"
    /\ UNCHANGED menuLocals
    /\ \E p \in Paths, writeOk \in BOOLEAN :
         /\ \A i \in 1..Len(config.library_paths) : config.library_paths[i] # p
         /\ LET cfg == [config EXCEPT !.library_paths = Append(@, p)]
            IN /\ config' = cfg
               /\ file' = SaveConfig(file, cfg, writeOk)
    /\ UNCHANGED << pc, now, launches, sessionLocals, sessionHistory >>

\* manage_library_paths, choice 2: "self.library_paths.pop(idx - 1)"
RemoveLibraryPath ==
    /\ pc = "menu"
    /\ UNCHANGED menuLocals
    /\ \E idx \in 1..Len(config.library_paths), writeOk \in BOOLEAN :
         LET lp == config.library_paths
             cfg == [config EXCEPT !.library_paths =
                        SubSeq(lp, 1, idx - 1) \o SubSeq(lp, idx + 1, Len(lp))]
         IN /\ config' = cfg
            /\ file' = SaveConfig(file, cfg, writeOk)
    /\ UNCHANGED << pc, now, launches, sessionLocals, sessionHistory >>

\* A faulty preparation that logs in before it looks for steam.exe; C11 tells
\* it from the real one.
PrepareLaunchLoginFirst(userFound, exeFound, steamRunning, loggedIn, haveName) ==
    IF ~userFound
    THEN [outcome |-> "no_user", spawned |-> {}, wait |-> 0, ask |-> FALSE]
    ELSE IF steamRunning /\ loggedIn
    THEN [outcome |-> IF exeFound THEN "ok" ELSE "no_exe",
          spawned |-> IF exeFound THEN {"applaunch"} ELSE {},
          wait |-> IF exeFound THEN LaunchWait ELSE 0,
          ask |-> FALSE]
    ELSE [outcome |-> IF exeFound THEN "ok" ELSE "no_exe",
          spawned |-> (IF steamRunning THEN {"taskkill"} ELSE {}) \cup {"login"}
                          \cup (IF exeFound THEN {"applaunch"} ELSE {}),
          wait |-> (IF steamRunning THEN KillWait ELSE 0) + LoginWait
                       + (IF exeFound THEN LaunchWait ELSE 0),
          ask |-> ~haveName]

\* The preparation of launch_game, lines 631-681: the user check, the search
\* for steam.exe, the login when Steam is not running or runs another user,
\* and the launch.  It answers how the preparation ends, the commands it
\* starts, the time it sleeps, and whether it asks for the account name.
PrepareLaunch(userFound, exeFound, steamRunning, loggedIn, haveName) ==
    IF ~userFound
    THEN [outcome |-> "no_user", spawned |-> {}, wait |-> 0, ask |-> FALSE]
    ELSE IF ~exeFound
    THEN [outcome |-> "no_exe", spawned |-> {}, wait |-> 0, ask |-> FALSE]
    ELSE IF steamRunning /\ loggedIn
    THEN [outcome |-> "ok", spawned |-> {"applaunch"}, wait |-> LaunchWait,
          ask |-> FALSE]
    ELSE [outcome |-> "ok",
          spawned |-> (IF steamRunning THEN {"taskkill"} ELSE {})
                          \cup {"login", "applaunch"},
          wait |-> (IF steamRunning THEN KillWait ELSE 0) + LoginWait + LaunchWait,
          ask |-> ~haveName]

\* launch_game up to the loop (lines 627-691), called by display_menu on
\* Enter when there are games and a current user.  penv is what the machine
\* can answer to the preparation in this specification.
LaunchGame(apps, again, penv) ==
    /\ pc = "menu"
    /\ UNCHANGED menuLocals
    /\ IF again THEN launches < MaxLaunches ELSE launches = 0
    /\ config.current_user # ""
    /\ config.library_paths # << >>
    /\ \E app \in apps, userFound \in penv.users, exeFound \in penv.exes,
          steamRunning \in penv.running, loggedIn \in penv.logged,
          name \in penv.names, writeOk \in BOOLEAN :
         LET u == config.current_user
             p == PrepareLaunch(userFound, exeFound, steamRunning, loggedIn,
                                config.steam_usernames[u] # "")
             cfg == IF p.ask THEN [config EXCEPT !.steam_usernames[u] = name]
                             ELSE config
         IN /\ p.ask \/ writeOk
            /\ prep' = p.outcome
            /\ spawned' = p.spawned
            /\ IF p.outcome = "ok"
               THEN /\ config' = cfg
                    /\ file' = IF p.ask THEN SaveConfig(file, cfg, writeOk) ELSE file
                    /\ app_id' = app
                    /\ total_playtime' = GetTotalPlaytime(cfg, app)
                    /\ ledger0' = cfg.playtime[app]
                    /\ now' = now + p.wait
                    /\ start_time' = now'
                    /\ last_save' = now'
                    /\ launches' = launches + 1
                    /\ pc' = "monitor"
               ELSE /\ pc' = "returned"
                    /\ UNCHANGED << config, file, app_id, total_playtime, ledger0,
                                    now, start_time, last_save, launches >>
    /\ last_cpu_check' = 0
    /\ cpu_history' = << >>
    /\ game_was_running' = FALSE
    /\ running_time' = 0
    /\ current_time' = 0 /\ session_time' = 0 /\ game_proc' = NoProcess
    /\ cpu_percent' = 0 /\ avg_cpu' = << 0, 1 >>
    /\ exit_reason' = "none" /\ flushes' = 0 /\ flush_time' = 0
    /\ seen' = FALSE /\ observed' = 0 /\ ticks' = 0 /\ sampled' = 0
    /\ lookup' = NoProcess /\ poll' = NoPoll /\ failed_writes' = 0
    /\ shown' = << >>
    /\ prev_proc' = NoProcess /\ faults' = {}

---------------------------------------------------------------------------
(* The monitor loop *)

\* The rest of a tick once the Ended test did not fire: lines 720-803.
TickBody(found, cur, faulty, env) ==
    \E sc \in SampleChoices(found, cur, last_cpu_check, env.samples, env.record),
       end \in Endings(found, env.keys, env.overruns, env.record),
       writeOk \in BOOLEAN :
        LET e == end.e
            due == CheckpointDue(cur, last_save)
            cfg == IF due THEN SavePlaytime(config, app_id,
                                            CheckpointDelta(cur, last_save, start_time))
                          ELSE config
        IN /\ due \/ writeOk
           /\ cpu_percent' = sc.value
           /\ cpu_history' = IF sc.taken THEN AppendSample(cpu_history, sc.value)
                                         ELSE cpu_history
           /\ last_cpu_check' = IF sc.taken THEN cur ELSE last_cpu_check
           /\ sampled' = IF sc.taken THEN sampled + 1 ELSE sampled
           /\ avg_cpu' = AvgCpu(cpu_history')
           /\ config' = MemoryAfterSave(cfg, config, writeOk)
           /\ file' = IF due THEN SaveConfig(file, cfg, writeOk) ELSE file
           /\ last_save' = IF due THEN cur ELSE last_save
           /\ failed_writes' = IF due /\ ~writeOk THEN failed_writes + 1
                                                  ELSE failed_writes
           /\ now' = now + e.adv
           /\ pc' = IF due THEN AfterSave(writeOk, e.pc) ELSE e.pc
           /\ exit_reason' = e.reason
           /\ poll' = end.ko
           /\ shown' = << FormatTime(session_time'),
                          FormatTime(DisplayedTotal(total_playtime, session_time')) >>
           /\ faults' = (IF faulty THEN {"lookup"} ELSE {})
                            \cup (IF sc.failed THEN {"sample"} ELSE {})

\* The "Game Session Ended" screen, lines 706-718: it blocks in get_key(),
\* whose decode() raises on a byte that is not UTF-8.
EndedScreen(faulty) ==
    \E wait \in 0..MaxWait, keyOk \in BOOLEAN :
        /\ faults' = IF faulty THEN {"lookup"} ELSE {}
        /\ now' = now + wait
        /\ pc' = IF keyOk THEN "flush" ELSE "error"
        /\ exit_reason' = "ended"
        /\ poll' = NoPoll
        /\ shown' = << FormatTime(running_time') >>
        /\ UNCHANGED << cpu_percent, cpu_history, last_cpu_check, avg_cpu,
                        sampled, config, file, last_save, failed_writes >>

\* An exception that leaves the lookup of line 699 is caught by the outer
\* handler only: the iteration stops there.
LookupEscapes ==
    /\ pc' = "error"
    /\ exit_reason' = "lookup"
    /\ faults' = {"lookup"}
    /\ poll' = NoPoll
    /\ UNCHANGED << now, game_proc, game_was_running, running_time, seen, observed,
                    cpu_percent, cpu_history, last_cpu_check, avg_cpu, sampled,
                    config, file, last_save, failed_writes, shown >>

\* One iteration of "while True", lines 693-803.  env is what the machine
\* around the loop can do in this specification: the results of the process
\* lookup, the overruns of a sleep, the CPU readings, the keys pressed, the
\* number of iterations the model follows, and whether the history variables
\* poll, prev_proc and faults are kept.
Tick(env) ==
    /\ pc = "monitor"
    /\ UNCHANGED menuLocals
    /\ ticks < env.maxTicks
    /\ \E table \in env.tables[app_id] :
         LET cur == now
             st == SessionTime(cur, start_time, ticks)
             res == GetGameProcess(table, app_id)
             faulty == env.record /\ TableFaulty(table)
         IN /\ current_time' = cur
            /\ session_time' = st
            /\ lookup' = res
            /\ prev_proc' = IF env.record THEN game_proc ELSE NoProcess
            /\ ticks' = ticks + 1
            /\ IF res = Raised
               THEN LookupEscapes
               ELSE LET handle == ResolveHandle(res, game_proc)
                        has == handle # NoProcess
                        tr == TrackRunning(has, game_was_running, running_time, st)
                    IN /\ game_proc' = handle
                       /\ game_was_running' = tr.was
                       /\ running_time' = tr.rt
                       /\ seen' = (seen \/ res # NoProcess)
                       /\ observed' = Observe(observed, lookup # NoProcess,
                                              res # NoProcess, cur - current_time)
                       /\ IF tr.ended THEN EndedScreen(faulty)
                                      ELSE TickBody(has, cur, faulty, env)
    /\ total_playtime' = PriorPlaytime(total_playtime, config, app_id)
    /\ UNCHANGED << app_id, start_time, flushes, flush_time,
                    ledger0, prep, spawned, launches >>

\* "self._save_playtime(app_id, time.time() - last_save)", line 806
FinalFlush ==
    /\ pc = "flush"
    /\ UNCHANGED menuLocals
    /\ \E writeOk \in BOOLEAN :
         LET cfg == SavePlaytime(config, app_id, now - last_save)
         IN /\ config' = MemoryAfterSave(cfg, config, writeOk)
            /\ file' = SaveConfig(file, cfg, writeOk)
            /\ pc' = AfterSave(writeOk, "returned")
    /\ flushes' = flushes + 1
    /\ flush_time' = now
    /\ UNCHANGED << now, launches, sessionLocals, exit_reason, ledger0, seen,
                    observed, ticks, sampled, prep, spawned, lookup, prev_proc,
                    faults, poll, failed_writes, shown >>

\* The outer handler, lines 808-811; an exception of its get_key() leaves
\* display_menu and ends the launcher in main's handler.
ErrorReturn ==
    /\ pc = "error"
    /\ UNCHANGED menuLocals
    /\ pc' = "returned"
    /\ UNCHANGED << now, file, config, launches, sessionLocals, sessionHistory >>

\* launch_game has returned: display_menu goes on, or, when the get_key() of
\* the outer handler raised, main's handler ends the launcher.  The locals
\* of launch_game are gone.
ReturnToMenu ==
    /\ pc = "returned"
    /\ UNCHANGED menuLocals
    /\ pc' \in (IF prep = "ok" /\ flushes = 0 THEN {"menu", "off"} ELSE {"menu"})
    /\ resetSession
    /\ UNCHANGED << now, file, config, launches >>

---------------------------------------------------------------------------
(* The main menu, display_menu *)

\* What get_installed_games can return: nothing without a library path;
\* with one, the manifests found on disk, sorted by name.  Games come and go
\* between two scans, and a title installed in two libraries is listed twice:
\* entry i of the fullest list is title "440" for odd i and "570" for even i.
Catalog == [i \in 1..MaxGames |-> IF i % 2 = 1 THEN "440" ELSE "570"]

Rescan(paths) ==
    IF paths = << >> THEN {<< >>}
    ELSE {SubSeq(Catalog, 1, n) : n \in 0..MaxGames}

\* A faulty arrow handler whose DOWN tests the end of the list instead of
\* three before it; C30 tells it from the real one.
MoveSelectionLoose(key, sel, n) ==
    CASE key = "LEFT" /\ sel > 0 -> sel - 1
      [] key = "RIGHT" /\ sel < n - 1 -> sel + 1
      [] key = "UP" /\ sel >= 3 -> sel - 3
      [] key = "DOWN" /\ sel < n -> sel + 3
      [] OTHER -> sel

\* Lines 968-977: the arrow keys, n being len(games)
MoveSelection(key, sel, n) ==
    CASE key = "LEFT" /\ sel > 0 -> sel - 1
      [] key = "RIGHT" /\ sel < n - 1 -> sel + 1
      [] key = "UP" /\ sel >= 3 -> sel - 3
      [] key = "DOWN" /\ sel < n - 3 -> sel + 3
      [] OTHER -> sel

\* "games[selected_game]['appid']": Python counts from 0
GameAt(list, sel) == list[sel + 1]

\* main, lines 992-997, and the top of display_menu: the launcher is built
\* (load_config), the games are scanned once and the menu opens with the
\* first game selected.
OpenMenu ==
    /\ pc = "off"
    /\ \E readOk \in BOOLEAN :
         /\ config' = LoadConfig(file, readOk)
         /\ games' \in Rescan(config'.library_paths)
    /\ selected_game' = 0
    /\ pc' = "menu"
    /\ UNCHANGED << now, file, launches, sessionLocals, sessionHistory >>

\* Key S: settings_menu, in which the user may pick an account, add a library
\* path or remove one (each change is saved), and on return a fresh scan.
MenuSettings ==
    /\ pc = "menu"
    /\ \E cfg \in {config}
              \cup {[config EXCEPT !.current_user = u] :
                       u \in IF config.library_paths # << >> THEN Users ELSE {}}
              \cup {[config EXCEPT !.library_paths = << p >>] : p \in Paths}
              \cup {[config EXCEPT !.library_paths = << >>]},
          writeOk \in BOOLEAN :
         /\ cfg # config \/ writeOk
         /\ config' = cfg
         /\ file' = IF cfg # config THEN SaveConfig(file, cfg, writeOk) ELSE file
         /\ games' \in Rescan(cfg.library_paths)
    /\ UNCHANGED << pc, now, launches, selected_game, sessionLocals, sessionHistory >>

\* Key R with a library path configured: a fresh scan.
MenuRefresh ==
    /\ pc = "menu"
    /\ config.library_paths # << >>
    /\ games' \in Rescan(config.library_paths)
    /\ UNCHANGED << pc, now, file, config, launches, selected_game,
                    sessionLocals, sessionHistory >>

\* Key A without a library path: the paths find_steam_libraries returns, if
\* any, are stored and saved, and the games are scanned.
MenuAutoDetect ==
    /\ pc = "menu"
    /\ config.library_paths = << >>
    /\ \E p \in Paths, writeOk \in BOOLEAN :
         LET cfg == [config EXCEPT !.library_paths = << p >>]
         IN /\ config' = cfg
            /\ file' = SaveConfig(file, cfg, writeOk)
            /\ games' \in Rescan(cfg.library_paths)
    /\ UNCHANGED << pc, now, launches, selected_game, sessionLocals, sessionHistory >>

\* An arrow key, handled only with games listed and a user selected.
MenuArrow ==
    /\ pc = "menu"
    /\ games # << >> /\ config.current_user # ""
    /\ \E key \in {"LEFT", "RIGHT", "UP", "DOWN"} :
         selected_game' = MoveSelection(key, selected_game, Len(games))
    /\ UNCHANGED << pc, now, file, config, launches, games,
                    sessionLocals, sessionHistory >>

\* Enter, lines 978-981: "if selected_game < len(games):
\* self.launch_game(games[selected_game]['appid'])"; past the end of the list
\* the key does nothing.
MenuEnter(penv) ==
    /\ pc = "menu"
    /\ games # << >> /\ config.current_user # ""
    /\ IF selected_game < Len(games)
       THEN LaunchGame({GameAt(games, selected_game)}, TRUE, penv)
       ELSE UNCHANGED vars

---------------------------------------------------------------------------
(* Specifications *)

\* Spec: one session.  Sleeps overrun by a little, by enough to cross the
\* MinRunning threshold, or by enough to make a checkpoint due.
Env ==
    [ tables |-> [a \in Titles |-> PlainTables(a)],
      overruns |-> (0..MaxDelay) \cup {MinRunning - 2 * TickSleep,
                                      SaveInterval - TickSleep},
      samples |-> {50},
      keys |-> Keys,
      maxTicks |-> MaxTicks,
      record |-> FALSE ]

\* Steam is running and logged in as the selected user: the launch needs no
\* login.
Prep ==
    [ users |-> {TRUE}, exes |-> {TRUE}, running |-> {TRUE}, logged |-> {TRUE},
      names |-> {"acct"} ]

Init == InitWith(InitialFiles({600}))

Next ==
    \/ StartLauncher
    \/ Quit
    \/ LaunchGame({"440"}, FALSE, Prep)
    \/ Tick(Env)
    \/ FinalFlush
    \/ ErrorReturn
    \/ ReturnToMenu

Spec == Init /\ [][Next]_vars

\* SpecCpu: one session of a game that every lookup finds, with two CPU
\* reading values and enough ticks to overflow the history.
EnvCpu ==
    [ tables |-> [a \in Titles |-> {GameByName(a)}],
      overruns |-> {0},
      samples |-> {10, 90},
      keys |-> {"none", "B", "undecodable"},
      maxTicks |-> MaxCpuTicks,
      record |-> FALSE ]

NextCpu ==
    \/ StartLauncher
    \/ Quit
    \/ LaunchGame({"440"}, FALSE, Prep)
    \/ Tick(EnvCpu)
    \/ FinalFlush
    \/ ErrorReturn
    \/ ReturnToMenu

SpecCpu == Init /\ [][NextCpu]_vars

\* SpecLife: the ledger over several launcher runs and sessions, with sleeps
\* that overrun by minutes (a suspended machine).
EnvLife ==
    [ tables |-> [a \in Titles |-> PlainTables(a)],
      overruns |-> {0, SaveInterval - TickSleep},
      samples |-> {50},
      keys |-> {"none", "B", "undecodable"},
      maxTicks |-> MaxLifeTicks,
      record |-> FALSE ]

InitLife == InitWith(InitialFiles({600}) \cup {DefaultConfig})

NextLife ==
    \/ StartLauncher
    \/ Quit
    \/ SelectUser
    \/ AddLibraryPath
    \/ RemoveLibraryPath
    \/ LaunchGame(Titles, TRUE, Prep)
    \/ Tick(EnvLife)
    \/ FinalFlush
    \/ ErrorReturn
    \/ ReturnToMenu

SpecLife == InitLife /\ [][NextLife]_vars

\* SpecLaunch: launch attempts on a machine where the user, steam.exe, a
\* running Steam and its logged-in user may each be missing.
PrepAny ==
    [ users |-> BOOLEAN, exes |-> BOOLEAN, running |-> BOOLEAN,
      logged |-> BOOLEAN, names |-> {"", "acct"} ]

EnvLaunch ==
    [ tables |-> [a \in Titles |-> PlainTables(a)],
      overruns |-> {0},
      samples |-> {50},
      keys |-> {"none", "B", "undecodable"},
      maxTicks |-> MaxLaunchTicks,
      record |-> FALSE ]

NextLaunch ==
    \/ StartLauncher
    \/ Quit
    \/ SelectUser
    \/ LaunchGame({"440"}, TRUE, PrepAny)
    \/ Tick(EnvLaunch)
    \/ FinalFlush
    \/ ErrorReturn
    \/ ReturnToMenu

SpecLaunch == Init /\ [][NextLaunch]_vars

\* SpecKeys: one session in which every key can be pressed on every tick and
\* the key read by a tick is kept in poll.
EnvKeys ==
    [ tables |-> [a \in Titles |-> PlainTables(a)],
      overruns |-> {0, SaveInterval - TickSleep},
      samples |-> {50},
      keys |-> Keys,
      maxTicks |-> MaxKeyTicks,
      record |-> TRUE ]

NextKeys ==
    \/ StartLauncher
    \/ Quit
    \/ LaunchGame({"440"}, FALSE, Prep)
    \/ Tick(EnvKeys)
    \/ FinalFlush
    \/ ErrorReturn
    \/ ReturnToMenu

SpecKeys == Init /\ [][NextKeys]_vars

\* SpecFaults: one session on a machine whose processes come and go, change
\* identity and refuse to be read, with a record of what failed in a tick.
EnvFaults ==
    [ tables |-> [a \in Titles |-> AllTables(a)],
      overruns |-> {0, MinRunning - TickSleep},
      samples |-> {50},
      keys |-> {"none", "Q", "K", "B"},
      maxTicks |-> MaxFaultTicks,
      record |-> TRUE ]

NextFaults ==
    \/ StartLauncher
    \/ Quit
    \/ LaunchGame({"440"}, FALSE, Prep)
    \/ Tick(EnvFaults)
    \/ FinalFlush
    \/ ErrorReturn
    \/ ReturnToMenu

SpecFaults == Init /\ [][NextFaults]_vars

\* SpecFormat: one session on a machine whose sleeps can last about a minute
\* or about an hour (the machine was suspended), so that the durations on the
\* screen pass the minute and hour marks of _format_time one second at a time.
EnvFormat ==
    [ tables |-> [a \in Titles |-> PlainTables(a)],
      overruns |-> {0, 1, 58 - TickSleep, 3597 - TickSleep},
      samples |-> {50},
      keys |-> {"none", "B", "undecodable"},
      maxTicks |-> MaxFormatTicks,
      record |-> FALSE ]

NextFormat ==
    \/ StartLauncher
    \/ Quit
    \/ LaunchGame({"440"}, FALSE, Prep)
    \/ Tick(EnvFormat)
    \/ FinalFlush
    \/ ErrorReturn
    \/ ReturnToMenu

SpecFormat == Init /\ [][NextFormat]_vars

\* SpecMenu: the main menu with its arrow keys, Enter, refresh, auto-detect
\* and settings, over lists of up to MaxGames games that a scan can shorten or
\* empty.  The sessions Enter starts are short: the user presses a key on
\* their first tick.
EnvMenu ==
    [ tables |-> [a \in Titles |-> PlainTables(a)],
      overruns |-> {0},
      samples |-> {50},
      keys |-> {"B", "undecodable"},
      maxTicks |-> MaxLaunchTicks,
      record |-> FALSE ]

NextMenu ==
    \/ OpenMenu
    \/ Quit
    \/ MenuSettings
    \/ MenuRefresh
    \/ MenuAutoDetect
    \/ MenuArrow
    \/ MenuEnter(Prep)
    \/ Tick(EnvMenu)
    \/ FinalFlush
    \/ ErrorReturn
    \/ ReturnToMenu

SpecMenu == InitLife /\ [][NextMenu]_vars

---------------------------------------------------------------------------
(* Claims *)

Ledger(doc) == doc.playtime[AppIdStr(app_id)]

\* C1: once the final flush of a session has run (the loop was left through
\* Ended, Q or B), the ledger entry of the launched title is its value at
\* session start plus the wall-clock time from start_time to the final
\* flush, whatever the number of checkpoints in between.
C1_LedgerIsStartPlusDuration ==
    flushes >= 1 =>
        /\ flushes = 1
        /\ exit_reason \in {"ended", "Q", "B"}
        /\ Ledger(config) = ledger0 + (flush_time - start_time)

C1_Witness ==
    /\ pc = "returned" /\ flushes = 1 /\ exit_reason = "ended"
    /\ last_save - start_time >= 2 * SaveInterval
    /\ flush_time > last_save

\* C2: whenever the monitor has reached Ended or Canceled and launch_game
\* has returned, the final flush has run exactly once.
C2_FlushedExactlyOnce ==
    (pc = "returned" /\ exit_reason \in {"ended", "Q", "B"}) => flushes = 1

\* C3: no step ever lowers the durable ledger entry of a title.
C3_LedgerNeverLowered ==
    [][\A t \in Titles : file'.playtime[t] >= file.playtime[t]]_vars

\* C4: the Ended exit is taken only when game_was_running is true, that is
\* only after some earlier tick of the session found the process.
C4_EndedOnlyAfterDetection ==
    exit_reason = "ended" => (game_was_running /\ seen)

C4_Witness ==
    pc = "flush" /\ exit_reason = "ended" /\ running_time >= MinRunning

\* C5: the Ended exit is taken only after the process has been observed
\* running for a total of at least 15 seconds.
C5_EndedOnlyAfterMinRunning ==
    exit_reason = "ended" => observed >= MinRunning

\* C6: on every tick the session elapsed time that is displayed is the
\* wall clock at that tick minus start_time.
C6_SessionTimeIsWallClock ==
    [][(pc = "monitor" /\ ticks' = ticks + 1)
           => session_time' = now - start_time]_vars

\* a tick whose elapsed time is not (ticks so far) * (tick interval)
C6_Witness ==
    /\ pc = "monitor" /\ ticks >= 2
    /\ session_time # (ticks - 1) * TickSleep
    /\ session_time = current_time - start_time

RECURSIVE SumTo(_, _)
SumTo(h, n) == IF n = 0 THEN 0 ELSE h[n] + SumTo(h, n - 1)

\* C7: the CPU history never holds more than 10 readings, a new reading is
\* appended at its end and the oldest is dropped beyond 10, and the average
\* reported is the mean of its contents (0 when it is empty).
C7_HistoryState ==
    /\ Len(cpu_history) <= HistoryMax
    /\ avg_cpu[2] > 0
    /\ avg_cpu[1] * Len(cpu_history) = avg_cpu[2] * SumTo(cpu_history, Len(cpu_history))
    /\ cpu_history = << >> => avg_cpu[1] = 0

C7_HistoryStep ==
    (pc = "monitor" /\ sampled' = sampled + 1) =>
        LET a == Append(cpu_history, cpu_percent')
            n == IF Len(a) < HistoryMax THEN Len(a) ELSE HistoryMax
        IN cpu_history' = SubSeq(a, Len(a) - n + 1, Len(a))

C7_CpuHistoryBounded == [](C7_HistoryState) /\ [][C7_HistoryStep]_vars

\* an eleventh reading has pushed the first one out
C7_Witness ==
    /\ pc = "monitor" /\ sampled = HistoryMax + 1
    /\ Len(cpu_history) = HistoryMax
    /\ cpu_history[1] # cpu_history[HistoryMax]

\* C8: a session in which the process was detected and the user cancels with
\* Q or B below the 15-second threshold never passes through Ended and leaves
\* the ledger at its prior value plus the elapsed session time.
C8_CancelBelowThreshold ==
    (/\ pc = "returned" /\ exit_reason \in {"Q", "B"}
     /\ game_was_running /\ running_time < MinRunning)
        => Ledger(config) = ledger0 + (now - start_time)

\* C9: while no tick has found the process the monitor stays in
\* AwaitingProcess and never takes the Ended exit, and a cancel by Q or B
\* then leaves the ledger at its prior value plus the elapsed session time
\* of the cancelling tick.
C9_NeverDetected ==
    (~seen) =>
        /\ ~game_was_running
        /\ running_time = 0
        /\ exit_reason # "ended"
        /\ (pc = "returned" /\ exit_reason \in {"Q", "B"}) =>
               /\ flushes = 1
               /\ Ledger(config) = ledger0 + session_time

C9_Witness ==
    /\ pc = "returned" /\ ~seen /\ exit_reason = "Q" /\ ticks = MaxTicks
    /\ session_time >= MinRunning
    /\ Ledger(config) = ledger0 + session_time

\* C10: at every point of a session the time not yet flushed to the
\* ledger is at most 300 seconds.
C10_UnsavedAtMostInterval ==
    pc \in {"monitor", "flush", "error"} => now - last_save <= SaveInterval

\* C11: when no steam.exe is found at any probed path, launch_game returns to
\* the menu without a session: it has started no command, the loop has run
\* no tick and no flush, no local of the monitor is set, and neither the
\* config in memory nor the file is touched by the attempt or by the return.
C11_NoSessionState ==
    (pc = "returned" /\ prep = "no_exe") =>
        /\ spawned = {}
        /\ ticks = 0 /\ flushes = 0
        /\ app_id = "" /\ start_time = 0

C11_NoSessionStep ==
    /\ (pc = "menu" /\ prep' = "no_exe") =>
           (pc' = "returned" /\ config' = config /\ file' = file /\ now' = now)
    /\ (pc = "returned" /\ prep = "no_exe") =>
           (pc' = "menu" /\ config' = config /\ file' = file)

C11_NoLauncherNoSession == [](C11_NoSessionState) /\ [][C11_NoSessionStep]_vars

C11_Witness ==
    /\ pc = "returned" /\ prep = "no_exe"
    /\ config.current_user # "" /\ file.playtime["440"] = 600

\* A step of the monitor loop: one iteration of "while True".
TickStep == pc = "monitor" /\ ticks' = ticks + 1

\* C12: a tick that reads the key K leaves the loop for the final flush, as
\* the ticks that read Q or B do.
C12_KillCancels == [][(TickStep /\ poll'.key = "K") => pc' = "flush"]_vars

\* C13: a terminate() or kill() that raises is swallowed: the tick does not
\* leave through the outer handler, and after Q it goes on to the final flush.
C13_SignalFailureSwallowed ==
    [][(TickStep /\ poll'.sig \in {"terminate_raises", "kill_raises"}) =>
          (pc' # "error" /\ (poll'.key = "Q" => pc' = "flush"))]_vars

\* C14: a checkpoint whose write fails is not fatal.  The tick goes where
\* its key sends it (on to the next tick without a key that ends the
\* session, to the final flush after Q or B) and leaves through the outer
\* handler only when the key itself raised; checkpoints that fall due after a
\* failed one are still taken; and a session with failed checkpoints that
\* reaches the final flush runs it.
C14_FailedTickGoesOn ==
    (TickStep /\ failed_writes' = failed_writes + 1) =>
        /\ last_save' = now
        /\ pc' = Ending(poll', 0).pc

C14_LaterCheckpointTaken ==
    (TickStep /\ failed_writes > 0 /\ exit_reason' # "ended"
        /\ CheckpointDue(now, last_save)) =>
        /\ last_save' = now
        /\ Ledger(config') = Ledger(config) + (now - last_save)

C14_FlushStillRuns ==
    (pc = "flush" /\ failed_writes > 0) =>
        (pc' = "returned" /\ flushes' = flushes + 1)

C14_WriteFailureNotFatal ==
    [][C14_FailedTickGoesOn /\ C14_LaterCheckpointTaken /\ C14_FlushStillRuns]_vars

C14_Witness ==
    /\ pc = "returned" /\ flushes = 1 /\ failed_writes = 2
    /\ Ledger(config) = ledger0 + (flush_time - start_time)

\* C15: a tick in which the lookup or the sampling failed is not the end of
\* the loop.  No exception of the lookup reaches the outer handler; the tick
\* goes where the Ended test or its key sends it, and on to the next tick
\* when no key was read; what it shows is degraded (no handle and no sample
\* after a failed lookup that found nothing, cpu_percent 0 when the tick reached
\* the CPU step and took no sample).  And no tick at all leaves the loop
\* without Ended or a key.
C15_FaultyTickGoesOn ==
    (TickStep /\ faults' # {}) =>
        /\ exit_reason' # "lookup"
        /\ exit_reason' # "ended" => pc' = Ending(poll', 0).pc
        /\ (exit_reason' # "ended" /\ poll' = NoPoll) => pc' = "monitor"
        /\ ("lookup" \in faults' /\ lookup' = NoProcess) =>
               (game_proc' = NoProcess /\ sampled' = sampled)
        /\ (exit_reason' # "ended" /\ sampled' = sampled) => cpu_percent' = 0

C15_LoopEndsByEndedOrKey ==
    (TickStep /\ pc' # "monitor") => (exit_reason' = "ended" \/ poll'.key # "none")

C16_ReachesCheckpoint == TickStep /\ exit_reason' \notin {"ended", "lookup"}

C16_Step ==
    C16_ReachesCheckpoint =>
        IF current_time' - last_save >= SaveInterval
        THEN /\ Ledger(config') = Ledger(config) + (current_time' - last_save)
             /\ last_save' = current_time'
             /\ failed_writes' = failed_writes => file' = config'
        ELSE /\ config' = config /\ file' = file
             /\ last_save' = last_save

C16_CheckpointStep ==
    /\ []((pc = "monitor" /\ ticks = 0) => last_save = start_time)
    /\ [][C16_Step]_vars

C16_Witness ==
    /\ pc = "monitor" /\ ticks = 3
    /\ last_save = start_time + SaveInterval
    /\ current_time > last_save
    /\ Ledger(file) = ledger0 + SaveInterval

\* C17: a tick that reads Q with a handle issues terminate first, lets the
\* grace period pass, and issues kill only after it and only when the process
\* is still running; without a handle it issues no signal; and in both cases
\* the tick leaves the loop for the final flush.
C17_ReadsQ == TickStep /\ poll'.key = "Q"

C17_SignalsInOrder ==
    C17_ReadsQ =>
        IF lookup' # NoProcess
        THEN /\ Signals(poll') \in {<< "terminate" >>, << "terminate", "kill" >>}
             /\ poll'.sig # "terminate_raises" => now' - now >= GracePeriod
             /\ Len(Signals(poll')) = 2 <=> poll'.sig \in {"killed", "kill_raises"}
        ELSE Signals(poll') = << >> /\ now' = now

C17_QuitOrderly == [][C17_SignalsInOrder]_vars

C17_ForceQuitOrdering ==
    [][C17_SignalsInOrder /\ (C17_ReadsQ => pc' = "flush")]_vars

\* C18: game_was_running is false until the first tick whose lookup returns
\* a process, true from that tick on, and no later step of the session resets
\* it, whether the process is still there or not.
C18_SetByFirstFind ==
    TickStep =>
        /\ (~game_was_running /\ lookup' = NoProcess) => ~game_was_running'
        /\ lookup' # NoProcess => game_was_running'

C18_NeverReset ==
    (game_was_running /\ pc # "returned" /\ pc # "error") => game_was_running'

C18_RunningFromFirstFind ==
    /\ [](pc \in {"monitor", "flush"} => (game_was_running <=> seen))
    /\ []((pc = "monitor" /\ ticks = 0) => ~game_was_running)
    /\ [][C18_SetByFirstFind /\ C18_NeverReset]_vars

C18_Witness ==
    /\ pc = "monitor" /\ ticks >= 3
    /\ game_was_running /\ game_proc = NoProcess /\ lookup = NoProcess
    /\ running_time < session_time

\* C19: the handle of a tick is what the lookup of that tick returned,
\* whatever the handle of the tick before was; a tick issues a signal or
\* takes a sample only when its own lookup returned a process, so never on a
\* handle left from an earlier tick; and a process that comes back under
\* another pid is the handle of the first tick that looks it up.
C19_HandleOfThisTick ==
    (TickStep /\ exit_reason' # "lookup") =>
        /\ game_proc' = lookup'
        /\ Signals(poll') # << >> => lookup' # NoProcess
        /\ sampled' # sampled => lookup' # NoProcess
        /\ "sample" \in faults' => lookup' # NoProcess

C19_HandleReResolved == [][C19_HandleOfThisTick]_vars

C19_Witness ==
    /\ ticks = 3
    /\ prev_proc # NoProcess /\ game_proc # NoProcess /\ game_proc # prev_proc
    /\ Signals(poll) = << "kill" >>
    /\ sampled = 3

\* C20: a tick appends a CPU sample only when it has a handle and the clock
\* it read is at least CpuInterval past last_cpu_check, which is the clock of
\* the tick that appended the sample before; a tick appends at most one
\* sample, and a tick that appends none leaves cpu_history and last_cpu_check
\* alone.  This holds for ticks that follow one another without a sleep after
\* the key R as well.
C20_ReachesCpuStep == TickStep /\ exit_reason' \notin {"ended", "lookup"}

C20_SampleStep ==
    C20_ReachesCpuStep =>
        IF sampled' # sampled
        THEN /\ sampled' = sampled + 1
             /\ lookup' # NoProcess
             /\ current_time' - last_cpu_check >= CpuInterval
             /\ last_cpu_check' = current_time'
             /\ cpu_history' = AppendSample(cpu_history, cpu_percent')
        ELSE /\ cpu_history' = cpu_history
             /\ last_cpu_check' = last_cpu_check

C20_NoSampleElsewhere ==
    (pc = "monitor" /\ ~C20_ReachesCpuStep) =>
        (cpu_history' = cpu_history /\ last_cpu_check' = last_cpu_check)

C20_SampledOncePerSecond == [][C20_SampleStep /\ C20_NoSampleElsewhere]_vars

C20_Witness ==
    /\ pc = "monitor" /\ ticks = 3
    /\ game_proc # NoProcess /\ prev_proc # NoProcess
    /\ sampled = 1 /\ Len(cpu_history) = 1
    /\ current_time = last_cpu_check
    /\ cpu_percent = 0

\* C21: the prior playtime is read once, when the session starts: while the
\* session runs total_playtime is the ledger entry the title had at the start,
\* no tick changes it, and the total a tick shows is that entry plus the time
\* elapsed since the start of the session, whatever checkpoints have been
\* written meanwhile.
C21_ShownTotal ==
    TickStep =>
        /\ total_playtime' = total_playtime
        /\ DisplayedTotal(total_playtime', session_time')
               = ledger0 + (current_time' - start_time)

C21_TotalReadOnce ==
    /\ [](pc \in {"monitor", "flush"} => total_playtime = ledger0)
    /\ [][C21_ShownTotal]_vars

C21_Witness ==
    /\ pc = "monitor" /\ ticks >= 3
    /\ Ledger(file) = ledger0 + (last_save - start_time)
    /\ last_save - start_time >= SaveInterval
    /\ current_time > last_save
    /\ DisplayedTotal(total_playtime, session_time) = ledger0 + (current_time - start_time)
    /\ DisplayedTotal(total_playtime, session_time) < Ledger(file) + session_time

\* C22: a tick that reads a key which is not a control key, an arrow or
\* function key included, goes on to the next tick: it sends no signal, ends
\* nothing and runs no final flush; and a tick that finds no key in the buffer
\* goes on after its sleep.
C22_UnrecognizedKey ==
    (TickStep /\ exit_reason' # "ended" /\ poll'.key \in {"other", "undecodable"}) =>
        /\ pc' = "monitor"
        /\ Signals(poll') = << >>
        /\ flushes' = flushes

C22_NoKey ==
    (TickStep /\ exit_reason' # "ended" /\ poll'.key = "none") =>
        /\ pc' = "monitor"
        /\ now' - now >= TickSleep

C22_RecognizedOnly ==
    (TickStep /\ exit_reason' # "ended" /\ poll'.key = "other") =>
        (pc' = "monitor" /\ Signals(poll') = << >> /\ flushes' = flushes)

C22_OtherKeysIgnored == [][C22_RecognizedOnly /\ C22_NoKey]_vars

C22_UnknownKeysIgnored == [][C22_UnrecognizedKey /\ C22_NoKey]_vars

\* C23 as stated: a tick that reads a cancel key (Q or B) only records the
\* intent; the loop is still running when the tick is over, and is left at the
\* top of the tick after it.
C23_CancelTick ==
    /\ TickStep /\ exit_reason' # "ended"
    /\ poll'.key \in {"Q", "B"}
    /\ poll'.sig \notin {"terminate_raises", "kill_raises"}

C23_ActsInSameTick ==
    C23_CancelTick =>
        /\ pc' = "flush"
        /\ current_time' = now /\ session_time' = now - start_time
        /\ game_proc' = lookup'
        /\ avg_cpu' = AvgCpu(cpu_history')
        /\ CheckpointDue(now, last_save) =>
               /\ last_save' = now
               /\ Ledger(config') = Ledger(config) + (now - last_save)
        /\ IF Signals(poll') = << >> THEN now' = now
                                      ELSE now' - now >= GracePeriod

C23_NoFurtherTick == pc = "flush" => (ticks' = ticks /\ pc' = "returned")

C24_LaterWriteSucceeds ==
    /\ pc \in {"monitor", "flush"} /\ failed_writes > 0
    /\ file' # file

\* The session time credited once the step is over: up to the clock of the
\* final flush, or up to the checkpoint of the tick.
C24_Credited == IF pc = "flush" THEN flush_time' - start_time
                                ELSE last_save' - start_time

C24_FailedDeltaLost ==
    [][C24_LaterWriteSucceeds => Ledger(file') < ledger0 + C24_Credited]_vars

\* C24, amended: the time of a checkpoint whose write failed stays in the
\* in-memory ledger, and the next write of the session that succeeds stores
\* it: the stored entry is the entry at session start plus all the time
\* credited so far, failed checkpoints included.
C24_FailedDeltaKept ==
    [][C24_LaterWriteSucceeds =>
          (file' = config' /\ Ledger(file') = ledger0 + C24_Credited)]_vars

C24_Witness ==
    /\ pc = "monitor" /\ ticks = 3 /\ failed_writes = 1
    /\ last_save - start_time = 2 * SaveInterval
    /\ Ledger(file) = ledger0 + 2 * SaveInterval

\* C25: for a whole number of seconds s >= 0, _format_time(s) is
\* "<s div 60>m <s mod 60>s" when s < 3600 and
\* "<s div 3600>h <(s mod 3600) div 60>m" when s >= 3600; 3600 is shown as
\* "1h 0m" and 3599 as "59m 59s".  Checked on every duration a screen of the
\* session shows: session time and total on the monitor, running time on the
\* Ended screen.
C25_Minutes(s) == << s \div 60, "m ", s % 60, "s" >>

C25_Hours(s) == << s \div 3600, "h ", (s % 3600) \div 60, "m" >>

C25_Formatted(s, str) ==
    /\ s >= 0
    /\ s < 3600 => str = C25_Minutes(s)
    /\ s >= 3600 => str = C25_Hours(s)
    /\ s = 3600 => str = << 1, "h ", 0, "m" >>
    /\ s = 3599 => str = << 59, "m ", 59, "s" >>

C25_ScreenOfTick ==
    TickStep =>
        IF exit_reason' = "ended"
        THEN /\ Len(shown') = 1
             /\ C25_Formatted(running_time', shown'[1])
        ELSE /\ Len(shown') = 2
             /\ C25_Formatted(session_time', shown'[1])
             /\ C25_Formatted(total_playtime + session_time', shown'[2])

C25_FormatTime == [][C25_ScreenOfTick]_vars

C25_Witness ==
    /\ pc = "monitor" /\ session_time = 3600
    /\ shown = << << 1, "h ", 0, "m" >>, << 1, "h ", 10, "m" >> >>

C25_WitnessBelowHour ==
    /\ pc = "monitor" /\ session_time = 3599
    /\ shown[1] = << 59, "m ", 59, "s" >>

\* C26: whenever the loop is about to start a tick, the in-memory ledger
\* entry of the launched title is the entry it had when the session started
\* plus last_save - start_time: last_save marks how much of the session has
\* been credited.
C26_CreditedUpToLastSave ==
    pc = "monitor" => Ledger(config) = ledger0 + (last_save - start_time)

C26_Witness ==
    /\ pc = "monitor" /\ ticks = 4 /\ failed_writes = 1
    /\ last_save - start_time > 2 * SaveInterval
    /\ Ledger(config) = ledger0 + (last_save - start_time)
    /\ Ledger(file) < Ledger(config)

\* C27: an exception that leaves the loop body (a key byte that cannot be
\* decoded, terminate() or kill() raising) takes the session to the outer
\* handler, from which launch_game returns without a final flush: the
\* in-memory ledger entry stays what the last checkpoint made it, and the file
\* is not written.
C27_Raises ==
    \/ poll'.key = "undecodable"
    \/ poll'.sig \in {"terminate_raises", "kill_raises"}

C27_RaisingTick == (TickStep /\ exit_reason' # "ended" /\ C27_Raises) => pc' = "error"

C27_HandlerReturns ==
    pc = "error" =>
        /\ pc' = "returned" /\ flushes' = 0
        /\ config' = config /\ file' = file /\ last_save' = last_save

C27_Uncredited ==
    (pc = "error" \/ (pc = "returned" /\ prep = "ok" /\ flushes = 0)) =>
        /\ flushes = 0
        /\ Ledger(config) = ledger0 + (last_save - start_time)

C27_EscapeSkipsFlush ==
    /\ [](C27_Uncredited)
    /\ [][C27_RaisingTick /\ C27_HandlerReturns]_vars

C27_Witness ==
    /\ pc = "returned" /\ flushes = 0 /\ poll.sig = "kill_raises"
    /\ last_save > start_time /\ now > last_save
    /\ Ledger(config) = ledger0 + (last_save - start_time)
    /\ Ledger(config) < ledger0 + (now - start_time)

\* C28: running_time is set to the session time of the tick on ticks whose
\* lookup finds the process and is left alone on the others; so once the
\* process was last found below MinRunning seconds of session time, no later
\* tick that misses it ends the session, and such a tick leaves the loop only
\* when it reads Q or B.
C28_RunningTimeStep ==
    (TickStep /\ exit_reason' # "lookup") =>
        IF lookup' # NoProcess THEN running_time' = session_time'
                               ELSE running_time' = running_time

C28_LostBelowThreshold ==
    /\ TickStep /\ game_was_running
    /\ lookup' = NoProcess /\ running_time < MinRunning

C28_NoEndedBelowThreshold == C28_LostBelowThreshold => exit_reason' # "ended"

C28_LeavesOnlyByQuitOrBack ==
    (C28_LostBelowThreshold /\ poll'.key \notin {"Q", "B"}) => pc' = "monitor"

C28_FrozenBelowThreshold ==
    [][C28_RunningTimeStep /\ C28_NoEndedBelowThreshold]_vars

C28_PollsUntilQuitOrBack ==
    [][/\ C28_RunningTimeStep
       /\ C28_NoEndedBelowThreshold
       /\ C28_LeavesOnlyByQuitOrBack]_vars

\* C29: a checkpoint or a final flush of a session on title X changes, in
\* memory, the playtime entry of X and nothing else: the entries of the other
\* titles, library_paths, current_user and steam_usernames stay as they are;
\* and the document it writes is the in-memory document, so it holds those
\* same values.
C29_LedgerWrite ==
    /\ pc \in {"monitor", "flush"}
    /\ config' # config \/ file' # file

C29_OthersKept(doc) ==
    /\ \A t \in Titles \ {AppIdStr(app_id)} : doc.playtime[t] = config.playtime[t]
    /\ doc.library_paths = config.library_paths
    /\ doc.current_user = config.current_user
    /\ doc.steam_usernames = config.steam_usernames

C29_OnlyOwnEntry ==
    [][C29_LedgerWrite =>
          /\ C29_OthersKept(config')
          /\ file' # file => C29_OthersKept(file')
          /\ config'.playtime[AppIdStr(app_id)] >= config.playtime[AppIdStr(app_id)]]_vars

C29_Witness ==
    /\ pc = "returned" /\ flushes = 1 /\ launches = 2 /\ app_id = "570"
    /\ file = config
    /\ file.playtime["570"] > 600 /\ file.playtime["440"] > 600

\* C30: in the main menu, whatever arrow keys, Enter, refreshes and
\* settings changes came before, launch_game is called only with a user
\* selected and with the game at an index selected_game that lies in
\* 0..len(games)-1; and an arrow key leaves selected_game in that range
\* whenever it was in it before the key.
C30_InRange(sel, list) == 0 <= sel /\ sel < Len(list)

C30_LaunchStep == pc = "menu" /\ pc' \in {"monitor", "returned"}

C30_LaunchInRange ==
    C30_LaunchStep =>
        /\ C30_InRange(selected_game, games)
        /\ config.current_user # ""
        /\ pc' = "monitor" => app_id' = GameAt(games, selected_game)

C30_ArrowStaysInRange ==
    (pc = "menu" /\ games' = games /\ C30_InRange(selected_game, games)) =>
        C30_InRange(selected_game', games')

C30_SelectionValid ==
    /\ [](selected_game >= 0)
    /\ [][C30_LaunchInRange /\ C30_ArrowStaysInRange]_vars

C30_Witness ==
    /\ pc = "monitor" /\ launches = 2
    /\ Len(games) = 2 /\ selected_game = 1
    /\ app_id = "570"

\* The selection can be left past the end of a list that a scan shortened.
C30_WitnessPastEnd ==
    pc = "menu" /\ games # << >> /\ selected_game >= Len(games)

====
